---- MODULE Spec2Model ----
(***************************************************************************)
(* A model of the openclaw-configurator orchestration core:                *)
(*   - the Vendor Resolver (src/src/utils/openclaw.ts): isSupportedProvider,*)
(*     getModelSuffix, findVendorModel, filterModelsByVendor;              *)
(*   - the persisted document and its three writers (setProviderConfig,    *)
(*     setModel, triggerGatewayRestart);                                   *)
(*   - the configuration flow (src/unnamed/part_000): runConfigLoop,       *)
(*     configureProvider, selectConfiguredModel, driven by the Menu Engine *)
(*     and the Operation Pipeline.                                         *)
(*                                                                         *)
(* Strings the code inspects by prefix or by "/" (model keys, provider     *)
(* ids, model names) are sequences of symbols.  A symbol is an atom such   *)
(* as "openai", "/" or "gpt-5.1"; no atom contains "/" and the atoms are   *)
(* chosen so that the text of one is not a prefix of another, so startsWith,*)
(* indexOf and slice on symbol sequences agree with the character-level    *)
(* operations of the code.                                                 *)
(***************************************************************************)
EXTENDS Integers, Sequences, FiniteSets, TLC

\* ------------------------------------------------------------------ bounds
\* Longest registry list handed to filterModelsByVendor in FilterSpec.
MaxModels == 3
\* Calls of the document's writers in one behaviour of DocSpec.
MaxCalls == 2
\* Latest reading of the wall clock.
MaxTime == 2
\* Selections other than EXIT made at the top-level menu in one behaviour.
MaxRounds == 2
\* Longest operation list handed to runOperations in OpsSpec.
MaxOps == 3
\* Longest provider list handed to isSupportedProvider in ResolveSpec.
MaxProviders == 2

\* ------------------------------------------------------------------ state
\* FilterSpec: the inputs and outputs of filterModelsByVendor.
VARIABLES fModels, fVendor, fOut, fOut2, fpc

\* ResolveSpec: the arguments of isSupportedProvider and findVendorModel (a
\* model key, the optional provider list, a vendor id) and their results.
VARIABLES rKey, rAllowed, rVendor, rOut, rFound, rpc

\* The persisted document (openclaw.json) and, for the last call of one of
\* its writers, the file as it was when the call began, the call, and how it
\* ended.
VARIABLES file, before, lastCall, calls

\* The configuration flow: where the single thread of control is (pc), the
\* locals of the sub-flow in progress, the pipeline's list and position, the
\* credentials the external tool has stored, and the outcome of runConfigLoop.
VARIABLES pc, chosen, curVendor, baseUrl, filteredModels, curProvider, api, selectedModel,
          configuredModels, currentModel, ops, opIdx, started, failed, inflight,
          creds, result

\* What an observer of the run has seen: the events of the sub-flow in
\* progress (log), the file and credentials when it began, the last input the
\* user or the environment gave and where, and for the top-level menu the
\* number of renderings, of selections other than EXIT and of action calls.
VARIABLES log, startFile, startCreds, lastStep, renders, selections, actionCalls

rvars == <<rKey, rAllowed, rVendor, rOut, rFound, rpc>>

fvars == <<fModels, fVendor, fOut, fOut2, fpc, rKey, rAllowed, rVendor, rOut, rFound, rpc>>

dvars == <<before, lastCall, calls>>

locals == <<curVendor, baseUrl, filteredModels, curProvider, api, selectedModel,
            configuredModels, currentModel>>

pipe == <<ops, opIdx, started, failed, inflight>>

menu == <<renders, selections, actionCalls, result>>

pvars == <<pc, chosen, curVendor, baseUrl, filteredModels, curProvider, api, selectedModel,
           configuredModels, currentModel, ops, opIdx, started, failed, inflight,
           creds, result, log, startFile, startCreds, lastStep, renders,
           selections, actionCalls>>

vars == <<fModels, fVendor, fOut, fOut2, fpc, rKey, rAllowed, rVendor, rOut, rFound, rpc, file, before, lastCall, calls,
          pc, chosen, curVendor, baseUrl, filteredModels, curProvider, api, selectedModel,
          configuredModels, currentModel, ops, opIdx, started, failed, inflight,
          creds, result, log, startFile, startCreds, lastStep, renders,
          selections, actionCalls>>

\* ------------------------------------------------------------------ strings
Null == "null"
\* null where a model key is expected
NullKey == <<"null">>
Slash == "/"

\* `${a}${b}`
Concat(s, t) == s \o t

\* String.prototype.startsWith
startsWith(s, p) == Len(s) >= Len(p) /\ SubSeq(s, 1, Len(p)) = p

\* String.prototype.indexOf for a one-symbol needle; zero-based, -1 if absent
indexOf(s, c) ==
  IF \E i \in 1..Len(s) : s[i] = c
  THEN (CHOOSE i \in 1..Len(s) : s[i] = c /\ \A j \in 1..(i - 1) : s[j] # c) - 1
  ELSE -1

\* String.prototype.slice(from) with from >= 0 (zero-based)
slice(s, from) == SubSeq(s, from + 1, Len(s))

\* the string whose text is the provider id p
ProviderStr(p) == <<p>>

\* the positions of the list P whose provider id, followed by "/", begins key
PrefixAt(key, P) ==
  {i \in 1..Len(P) : Len(key) >= 2 /\ key[1] = P[i] /\ key[2] = Slash}

\* `${provider}/${name}`
MakeKey(provider, name) == Concat(Concat(ProviderStr(provider), <<Slash>>), name)

BoundedSeq(S, n) == UNION {[1..k -> S] : k \in 0..n}

\* ------------------------------------------------------------------ catalog
SUPPORTED_PROVIDERS ==
  <<"openai", "anthropic", "google", "minimax", "zai", "moonshot", "deepseek">>

NoApi == "undefined"

VendorModel(n, p, a) == [name |-> <<n>>, provider |-> p, api |-> a]

TWELVE_API_MODELS ==
  << VendorModel("claude-haiku-4-5-20251001", "anthropic", NoApi),
     VendorModel("claude-opus-4-5-20251101", "anthropic", NoApi),
     VendorModel("claude-opus-4-6", "anthropic", NoApi),
     VendorModel("claude-sonnet-4-5-20250929", "anthropic", NoApi),
     VendorModel("gpt-5.1", "openai", NoApi),
     VendorModel("gpt-5.2", "openai", NoApi),
     VendorModel("MiniMax-M2.5", "minimax", "anthropic-messages"),
     VendorModel("glm-5", "zai", "anthropic-messages"),
     VendorModel("kimi-k2.5", "moonshot", "anthropic-messages"),
     VendorModel("deepseek-v3.2", "deepseek", "openai-completions"),
     VendorModel("gemini-3-pro-preview", "google", NoApi),
     VendorModel("gemini-3-flash-preview", "google", NoApi) >>

VendorIds == {"12api", "other"}

VENDOR_FILTERS ==
  [v \in VendorIds |->
     IF v = "12api"
     THEN [providers |-> <<"openai", "anthropic", "google", "minimax", "zai",
                          "moonshot", "deepseek">>,
           models |-> TWELVE_API_MODELS]
     ELSE [providers |-> <<>>, models |-> <<>>]]

\* ------------------------------------------------------------------ resolver
RECURSIVE FirstProvider(_, _, _)
FirstProvider(key, providers, i) ==
  IF i > Len(providers) THEN Null
  ELSE IF startsWith(key, Concat(ProviderStr(providers[i]), <<Slash>>))
       THEN providers[i]
       ELSE FirstProvider(key, providers, i + 1)

\* "allowedProviders ?? SUPPORTED_PROVIDERS": the list given, an empty one
\* included, or the full enumeration when the argument is left out
providersOrDefault(allowed) ==
  IF allowed.given THEN allowed.list ELSE SUPPORTED_PROVIDERS

\* a variant that tests the provider id alone, without the "/" after it
isSupportedProviderNoSlash(key, allowedProviders) ==
  LET hits == {i \in 1..Len(allowedProviders) :
                 startsWith(key, ProviderStr(allowedProviders[i]))}
  IN IF hits = {} THEN Null
     ELSE allowedProviders[CHOOSE i \in hits : \A j \in hits : i <= j]

\* isSupportedProvider(key, allowedProviders) with allowedProviders given
isSupportedProvider(key, allowedProviders) == FirstProvider(key, allowedProviders, 1)

\* isSupportedProvider(key): allowedProviders ?? SUPPORTED_PROVIDERS
isSupportedProviderDefault(key) == isSupportedProvider(key, SUPPORTED_PROVIDERS)

getModelSuffix(key) ==
  LET slashIndex == indexOf(key, Slash)
  IN IF slashIndex >= 0 THEN slice(key, slashIndex + 1) ELSE key

NoVendorModel == [name |-> <<>>, provider |-> Null, api |-> NoApi]

\* a variant that looks the entry up by its name alone
findVendorModelByName(vendor, modelKey) ==
  IF vendor \notin DOMAIN VENDOR_FILTERS THEN NoVendorModel
  ELSE LET filter == VENDOR_FILTERS[vendor]
           suffix == getModelSuffix(modelKey)
           hits == {i \in 1..Len(filter.models) : filter.models[i].name = suffix}
       IN IF hits = {} THEN NoVendorModel
          ELSE filter.models[CHOOSE i \in hits : \A j \in hits : i <= j]

\* Array.prototype.find: the first catalog entry that matches, or undefined
findVendorModel(vendor, modelKey) ==
  IF vendor \notin DOMAIN VENDOR_FILTERS THEN NoVendorModel
  ELSE LET filter == VENDOR_FILTERS[vendor]
           suffix == getModelSuffix(modelKey)
           provider == isSupportedProviderDefault(modelKey)
           hits == {i \in 1..Len(filter.models) :
                      filter.models[i].name = suffix
                      /\ filter.models[i].provider = provider}
       IN IF hits = {} THEN NoVendorModel
          ELSE filter.models[CHOOSE i \in hits : \A j \in hits : i <= j]

\* the entry pushed for a catalog model the registry lacks
SyntheticModel(vm) ==
  [key |-> MakeKey(vm.provider, vm.name), name |-> vm.name, input |-> "",
   contextWindow |-> 0, local |-> FALSE, available |-> TRUE, tags |-> {},
   missing |-> FALSE]

\* the predicate of models.filter(...)
KeepModel(m, filter, modelNames) ==
  LET provider == isSupportedProvider(m.key, filter.providers)
  IN IF provider = Null THEN FALSE
     ELSE IF Len(filter.models) = 0 THEN TRUE
     ELSE getModelSuffix(m.key) \in modelNames

\* a variant that pushes a catalog model whether or not its key is known
RECURSIVE AppendMissingNoCheck(_, _, _, _)
AppendMissingNoCheck(filtered, existingKeys, catalog, i) ==
  IF i > Len(catalog) THEN filtered
  ELSE AppendMissingNoCheck(Append(filtered, SyntheticModel(catalog[i])),
                            existingKeys, catalog, i + 1)

\* a variant that pushes the missing catalog models in front of the kept ones
RECURSIVE AppendMissingFront(_, _, _, _)
AppendMissingFront(filtered, existingKeys, catalog, i) ==
  IF i > Len(catalog) THEN filtered
  ELSE LET key == MakeKey(catalog[i].provider, catalog[i].name)
       IN IF key \notin existingKeys
          THEN AppendMissingFront(<<SyntheticModel(catalog[i])>> \o filtered,
                                  existingKeys \cup {key}, catalog, i + 1)
          ELSE AppendMissingFront(filtered, existingKeys, catalog, i + 1)

\* the loop "for (const vm of filter.models)" from its i-th iteration on
RECURSIVE AppendMissing(_, _, _, _)
AppendMissing(filtered, existingKeys, catalog, i) ==
  IF i > Len(catalog) THEN filtered
  ELSE LET key == MakeKey(catalog[i].provider, catalog[i].name)
       IN IF key \notin existingKeys
          THEN AppendMissing(Append(filtered, SyntheticModel(catalog[i])),
                             existingKeys \cup {key}, catalog, i + 1)
          ELSE AppendMissing(filtered, existingKeys, catalog, i + 1)

\* a variant in which an empty filter is applied like any other
IsEscapeHatchNever(filter) == FALSE

\* "no filters specified (other vendor)"
IsEscapeHatch(filter) == Len(filter.providers) = 0 /\ Len(filter.models) = 0

filterModelsByVendor(models, vendor) ==
  IF vendor \notin DOMAIN VENDOR_FILTERS THEN models
  ELSE LET filter == VENDOR_FILTERS[vendor]
       IN IF IsEscapeHatch(filter) THEN models
          ELSE LET existingKeys == {models[i].key : i \in 1..Len(models)}
                   modelNames == {filter.models[i].name : i \in 1..Len(filter.models)}
                   filtered == SelectSeq(models, LAMBDA m : KeepModel(m, filter, modelNames))
               IN AppendMissing(filtered, existingKeys, filter.models, 1)

\* ------------------------------------------------------------------ JSON objects
\* A JSON object is a function from its keys to their values; a key the
\* object lacks is outside its domain.  The values at the paths the writers
\* walk (models, models.providers, agents, agents.defaults, ..., meta) are
\* objects, hence truthy, whenever they are present.
EmptyObj == [k \in {} |-> TRUE]

Has(o, k) == k \in DOMAIN o

\* o[k] = v
Put(o, k, v) == [x \in DOMAIN o \cup {k} |-> IF x = k THEN v ELSE o[x]]

\* A property of an in-memory ProviderConfig is <<v>> when it holds v and
\* <<>> when it is undefined (api and models are optional for the callers).
Undef == <<>>

Def(v) == <<v>>

\* JSON.stringify of one in-memory provider entry: a property whose value is
\* undefined is left out
StringifyEntry(e) == [k \in {x \in DOMAIN e : e[x] # Undef} |-> e[k][1]]

\* JSON.parse of one provider entry
ParseEntry(e) == [k \in DOMAIN e |-> Def(e[k])]

\* JSON.stringify(config, null, 2): the JSON value written for a document
\* (the in-memory provider entries are the objects that may hold undefined)
Stringify(config) ==
  IF Has(config, "models") /\ Has(config["models"], "providers")
  THEN Put(config, "models",
           Put(config["models"], "providers",
               [p \in DOMAIN config["models"]["providers"] |->
                  StringifyEntry(config["models"]["providers"][p])]))
  ELSE config

\* JSON.parse(content): the in-memory document of a well-formed JSON value
Parse(json) ==
  IF Has(json, "models") /\ Has(json["models"], "providers")
  THEN Put(json, "models",
           Put(json["models"], "providers",
               [p \in DOMAIN json["models"]["providers"] |->
                  ParseEntry(json["models"]["providers"][p])]))
  ELSE json

\* ------------------------------------------------------------------ the file
\* The file is absent, or holds text: well-formed JSON (its value is json, laid
\* out with the given indent) or text JSON.parse rejects.
NoFile == [exists |-> FALSE, wellFormed |-> FALSE, indent |-> 0, json |-> EmptyObj]

JsonFile(json, indent) ==
  [exists |-> TRUE, wellFormed |-> TRUE, indent |-> indent, json |-> json]

\* a variant that starts from an empty document instead of reading the file
readOpenclawConfigEmpty(f) == [threw |-> FALSE, config |-> EmptyObj]

\* a variant that takes content it cannot parse for the empty document
readOpenclawConfigLenient(f) ==
  IF ~f.exists \/ ~f.wellFormed THEN [threw |-> FALSE, config |-> EmptyObj]
  ELSE [threw |-> FALSE, config |-> Parse(f.json)]

\* readOpenclawConfig: {} for a missing file, the parsed content otherwise;
\* JSON.parse throws on malformed content
readOpenclawConfig(f) ==
  IF ~f.exists THEN [threw |-> FALSE, config |-> EmptyObj]
  ELSE IF ~f.wellFormed THEN [threw |-> TRUE, config |-> EmptyObj]
  ELSE [threw |-> FALSE, config |-> Parse(f.json)]

\* writeOpenclawConfig: the file after writeFileSync(JSON.stringify(config, null, 2))
writeOpenclawConfig(config) == JsonFile(Stringify(config), 2)

\* a variant that resets the subtree whether or not it is there
EnsureReset(o, k) == Put(o, k, EmptyObj)

\* "if (!o[k]) o[k] = {}"
Ensure(o, k) == IF ~Has(o, k) THEN Put(o, k, EmptyObj) ELSE o

\* the in-memory document of setProviderConfig just before it is written
setProviderConfigDoc(openclawConfig, provider, config) ==
  LET c1 == Ensure(openclawConfig, "models")
      m1 == Put(c1["models"], "mode", "merge")
      m2 == Ensure(m1, "providers")
      m3 == Put(m2, "providers", Put(m2["providers"], provider, config))
  IN Put(c1, "models", m3)

\* a variant of setModel that sets the primary model and leaves the settings
\* map as it finds it
setModelDocNoEntry(openclawConfig, modelKey) ==
  LET c1 == Ensure(openclawConfig, "agents")
      a1 == Ensure(c1["agents"], "defaults")
      d1 == Ensure(a1["defaults"], "model")
      d2 == Ensure(d1, "models")
      d3 == Put(d2, "model", Put(d2["model"], "primary", modelKey))
  IN Put(c1, "agents", Put(a1, "defaults", d3))

\* the in-memory document of setModel just before it is written
setModelDoc(openclawConfig, modelKey) ==
  LET c1 == Ensure(openclawConfig, "agents")
      a1 == Ensure(c1["agents"], "defaults")
      d1 == Ensure(a1["defaults"], "model")
      d2 == Ensure(d1, "models")
      d3 == Put(d2, "model", Put(d2["model"], "primary", modelKey))
      d4 == Put(d3, "models", Ensure(d3["models"], modelKey))
  IN Put(c1, "agents", Put(a1, "defaults", d4))

\* the in-memory document of triggerGatewayRestart just before it is written;
\* now is new Date().toISOString()
triggerGatewayRestartDoc(openclawConfig, now) ==
  LET c1 == Ensure(openclawConfig, "meta")
  IN Put(c1, "meta", Put(c1["meta"], "lastTouchedAt", now))

\* The three writers as functions of the file: the file they leave and
\* whether they threw.  Each reads, and only after a successful read writes.
setProviderConfig(f, provider, config) ==
  LET r == readOpenclawConfig(f)
  IN IF r.threw THEN [threw |-> TRUE, file |-> f]
     ELSE [threw |-> FALSE,
           file |-> writeOpenclawConfig(setProviderConfigDoc(r.config, provider, config))]

setModel(f, modelKey) ==
  LET r == readOpenclawConfig(f)
  IN IF r.threw THEN [threw |-> TRUE, file |-> f]
     ELSE [threw |-> FALSE, file |-> writeOpenclawConfig(setModelDoc(r.config, modelKey))]

triggerGatewayRestart(f, now) ==
  LET r == readOpenclawConfig(f)
  IN IF r.threw THEN [threw |-> TRUE, file |-> f]
     ELSE [threw |-> FALSE,
           file |-> writeOpenclawConfig(triggerGatewayRestartDoc(r.config, now))]

\* getConfiguredModels: Object.keys(agents.defaults.models), [] when absent
\* (as a set; the flow lists them in the object's key order)
getConfiguredModels(config) ==
  IF Has(config, "agents") /\ Has(config["agents"], "defaults")
     /\ Has(config["agents"]["defaults"], "models")
  THEN DOMAIN config["agents"]["defaults"]["models"]
  ELSE {}

\* getPrimaryModel(): agents?.defaults?.model?.primary ?? null
getPrimaryModel(config) ==
  IF Has(config, "agents") /\ Has(config["agents"], "defaults")
     /\ Has(config["agents"]["defaults"], "model")
     /\ Has(config["agents"]["defaults"]["model"], "primary")
  THEN config["agents"]["defaults"]["model"]["primary"]
  ELSE NullKey


\* ------------------------------------------------------------------ registry inputs
RegModel(k, n, cw) ==
  [key |-> k, name |-> n, input |-> "text", contextWindow |-> cw, local |-> FALSE,
   available |-> FALSE, tags |-> {"default"}, missing |-> TRUE]

\* Registry entries the external tool may report: a catalog key, the same key
\* reported a second time with other fields, an allowed provider with a name
\* outside the catalog, an allowed provider paired with another provider's
\* catalog name, a provider outside the enumeration, a key without "/", and a
\* key with two "/".
RegistryPool ==
  { RegModel(<<"openai", "/", "gpt-5.1">>, <<"GPT 5.1">>, 128),
    RegModel(<<"openai", "/", "gpt-5.1">>, <<"GPT 5.1 dup">>, 64),
    RegModel(<<"google", "/", "gemini-3-pro-preview">>, <<"Gemini 3 Pro">>, 256),
    RegModel(<<"openai", "/", "gpt-4o">>, <<"GPT 4o">>, 128),
    RegModel(<<"openai", "/", "claude-opus-4-6">>, <<"Opus via openai">>, 200),
    RegModel(<<"xai", "/", "grok-4">>, <<"Grok 4">>, 128),
    RegModel(<<"gpt-5.1">>, <<"bare">>, 8),
    RegModel(<<"anthropic", "/", "eu", "/", "claude-opus-4-6">>, <<"Opus EU">>, 200) }

FilterVendors == VendorIds \cup {"unknown"}

\* ------------------------------------------------------------------ documents
K1 == <<"openai", "/", "gpt-5.1">>

K2 == <<"anthropic", "/", "claude-opus-4-6">>

Merge(a, b) == [k \in DOMAIN a \cup DOMAIN b |-> IF k \in DOMAIN a THEN a[k] ELSE b[k]]

OldProviders ==
  [p \in {"anthropic"} |->
     [baseUrl |-> <<"https://old.example">>, apiKey |-> <<"sk-old">>]]

\* the models subtree: absent, empty, or holding a mode, a provider and a key
\* this program does not know
ModelsOpt ==
  { EmptyObj,
    [models |-> EmptyObj],
    [models |-> [mode |-> "replace", providers |-> OldProviders,
                 bedrockDiscovery |-> 1]] }

\* the agents subtree: absent, empty at each level, or holding a primary
\* model, a settings entry for it and keys this program does not know
AgentsOpt ==
  { EmptyObj,
    [agents |-> EmptyObj],
    [agents |-> [defaults |-> EmptyObj]],
    [agents |-> [defaults |-> [model |-> [primary |-> K1, fallbacks |-> <<K2>>],
                               models |-> [k \in {K1} |-> [alias |-> "fast"]],
                               workspace |-> "w"],
                 list |-> 3]] }

MetaOpt ==
  { EmptyObj,
    [meta |-> [lastTouchedAt |-> 0, lastTouchedVersion |-> "1.0"]] }

\* a top-level key this program does not know
CustomOpt == { EmptyObj, [customField |-> 42] }

InitDocs ==
  { Merge(Merge(m, a), Merge(t, c)) :
      m \in ModelsOpt, a \in AgentsOpt, t \in MetaOpt, c \in CustomOpt }

BadFile == [exists |-> TRUE, wellFormed |-> FALSE, indent |-> 0, json |-> EmptyObj]

\* The files the program may find: none, malformed text, or a document laid
\* out by another writer (indent 4) or by this program (indent 2).
InitFiles ==
  {NoFile, BadFile} \cup {JsonFile(d, 4) : d \in InitDocs}
  \cup {JsonFile(Merge([customField |-> 42], EmptyObj), 2)}

Times == 1..MaxTime

NoCall ==
  [op |-> "none", provider |-> Null, config |-> EmptyObj, modelKey |-> NullKey,
   now |-> 0, threw |-> FALSE]

DocIdle ==
  /\ before = NoFile
  /\ lastCall = NoCall
  /\ calls = 0

DocProviders == {"openai", "anthropic"}

\* ProviderConfig values a caller may pass: api and models undefined, or both
\* given
DocConfigs ==
  { [baseUrl |-> Def(<<"https://cdn.12ai.org", "/v1">>), api |-> Undef, models |-> Undef],
    [baseUrl |-> Def(<<"https://cdn.12ai.org">>), api |-> Def("anthropic-messages"),
     models |-> Def(<<[id |-> <<"kimi-k2.5">>, name |-> <<"Kimi">>]>>)] }

DocModelKeys == {K1, K2}

\* ------------------------------------------------------------------ flow: values
TWELVE_API_BASE_URL == <<"https://cdn.12ai.org">>

\* the EXIT sentinel of the Menu Engine
MENU_EXIT == "MENU_EXIT"

\* runMenu's cancellation indicator: no item (position 0) was selected
Cancelled == 0

\* the items of the top-level menu, in order
TopItems == <<"add", "select_model", MENU_EXIT>>

\* a variant of the top-level menu's configuration without "loop: true"
TopLoopOff == FALSE

\* the top-level menu's "loop: true"
TopLoop == TRUE

\* the items of selectVendor's menu, in order
VendorItems == <<"12api", "other">>

NoModel ==
  [key |-> <<>>, name |-> <<>>, input |-> "", contextWindow |-> 0, local |-> FALSE,
   available |-> FALSE, tags |-> {}, missing |-> FALSE]

getProviderBaseUrl(url, prov, apiType) ==
  IF apiType = "openai-completions" THEN Concat(url, <<"/v1">>)
  ELSE IF apiType = "anthropic-messages" THEN url
  ELSE IF prov = "openai" THEN Concat(url, <<"/v1">>)
  ELSE IF prov = "google" THEN Concat(url, <<"/v1beta">>)
  ELSE url

\* key.split("/").slice(1).join("/"): what follows the first "/", "" if none
splitSliceJoin(key) ==
  LET i == indexOf(key, Slash)
  IN IF i >= 0 THEN slice(key, i + 1) ELSE <<>>

\* Step 5 of configureProvider: the vendor's providers when it names any,
\* else the full enumeration
allowedOf(v) ==
  LET vendorFilter == IF v \in DOMAIN VENDOR_FILTERS THEN VENDOR_FILTERS[v]
                      ELSE [providers |-> <<>>, models |-> <<>>]
  IN IF Len(vendorFilter.providers) > 0 THEN vendorFilter.providers
     ELSE SUPPORTED_PROVIDERS

\* a variant of Step 5 that takes what stands before the first "/" for the
\* provider, supported or not
resolveProviderFromKey(v, key) ==
  IF indexOf(key, Slash) = 1 THEN key[1] ELSE Null

\* Step 5 of configureProvider: the provider of the selected key
resolveProvider(v, key) == isSupportedProvider(key, allowedOf(v))

\* ------------------------------------------------------------------ operations
NoFailure == [name |-> Null, idx |-> 0]

Operation(name, prov, config, apiKey, modelKey) ==
  [name |-> name, provider |-> prov, config |-> config, apiKey |-> apiKey,
   modelKey |-> modelKey]

createSetProviderConfig(prov, url, apiType, models) ==
  Operation("setProviderConfig", prov,
            [baseUrl |-> Def(url),
             api |-> IF apiType = NoApi THEN Undef ELSE Def(apiType),
             models |-> models],
            "", NullKey)

createSetApiKey(prov, apiKey) == Operation("setApiKey", prov, EmptyObj, apiKey, NullKey)

createSetModel(modelKey) == Operation("setModel", Null, EmptyObj, "", modelKey)

\* a variant of Step 7 that puts the active model first
buildOperationsModelFirst(model, url, prov, apiType, apiKey) ==
  LET modelSuffix == splitSliceJoin(model.key)
      providerBaseUrl == getProviderBaseUrl(url, prov, apiType)
  IN << createSetModel(model.key),
        createSetProviderConfig(prov, providerBaseUrl, apiType,
          IF apiType # NoApi
          THEN Def(<<[id |-> modelSuffix, name |-> model.name]>>) ELSE Undef),
        createSetApiKey(prov, apiKey) >>

\* Step 7 of configureProvider: the operation list
buildOperations(model, url, prov, apiType, apiKey) ==
  LET modelSuffix == splitSliceJoin(model.key)
      providerBaseUrl == getProviderBaseUrl(url, prov, apiType)
  IN << createSetProviderConfig(prov, providerBaseUrl, apiType,
          IF apiType # NoApi
          THEN Def(<<[id |-> modelSuffix, name |-> model.name]>>) ELSE Undef),
        createSetApiKey(prov, apiKey),
        createSetModel(model.key) >>

IsDocOp(op) == op.name \in {"setProviderConfig", "setModel"}

\* the document an operation writes, from the document it read
applyDoc(op, config) ==
  IF op.name = "setProviderConfig"
  THEN setProviderConfigDoc(config, op.provider, op.config)
  ELSE setModelDoc(config, op.modelKey)

\* ------------------------------------------------------------------ flow: idle states
\* the optional argument allowedProviders, here left out
NoProviders == [given |-> FALSE, list |-> <<>>]

ResolveIdle ==
  /\ rKey = <<>> /\ rAllowed = NoProviders /\ rVendor = "other"
  /\ rOut = Null /\ rFound = NoVendorModel /\ rpc = "input"

FilterIdle ==
  /\ fModels = <<>> /\ fVendor = "other" /\ fOut = <<>> /\ fOut2 = <<>> /\ fpc = "input"
  /\ ResolveIdle

NoStep == [at |-> "start", input |-> "none"]

LocalsIdle ==
  /\ curVendor = Null
  /\ baseUrl = <<>>
  /\ filteredModels = <<>>
  /\ curProvider = Null
  /\ api = NoApi
  /\ selectedModel = NoModel
  /\ configuredModels = {}
  /\ currentModel = NullKey

PipeIdle ==
  /\ ops = <<>>
  /\ opIdx = 1
  /\ started = FALSE
  /\ failed = NoFailure
  /\ inflight = {}

NoCreds == [p \in {} |-> ""]

FlowIdle ==
  /\ pc = "menu"
  /\ chosen = Null
  /\ LocalsIdle
  /\ PipeIdle
  /\ creds = NoCreds
  /\ result = Null
  /\ log = <<>>
  /\ startFile = file
  /\ startCreds = NoCreds
  /\ lastStep = NoStep
  /\ renders = 1
  /\ selections = 0
  /\ actionCalls = 0

\* ------------------------------------------------------------------ flow: inputs
\* the documents the flow may find: none, a document of another writer with
\* no agents subtree, and one with two configured models of which K1 is active
FlowDocs ==
  { [customField |-> 42,
     models |-> [mode |-> "replace", providers |-> OldProviders],
     meta |-> [lastTouchedAt |-> 0, lastTouchedVersion |-> "1.0"]],
    [customField |-> 42,
     agents |-> [defaults |-> [model |-> [primary |-> K1],
                               models |-> [k \in {K1, K2} |-> [alias |-> "fast"]]]]] }

FlowInitFiles == {NoFile} \cup {JsonFile(d, 4) : d \in FlowDocs}

\* what the user may type at the base-URL prompt (the second is the empty line)
BaseUrlInputs == { <<"https://gw.example">>, <<>> }

\* what the user may type at the API-key prompt
ApiKeyInputs == { "sk-1" }

\* the registries "openclaw models list --all --json" may report to the flow
FlowRegistries ==
  { <<>>,
    << RegModel(<<"openai", "/", "gpt-5.1">>, <<"GPT 5.1">>, 128),
       RegModel(<<"xai", "/", "grok-4">>, <<"Grok 4">>, 128) >> }

\* the entries of the model menu the user is taken to choose among: a key the
\* registry reports, catalog keys of each api type and of none, and a key of
\* a provider outside the enumeration
ModelMenuKeys ==
  { <<"openai", "/", "gpt-5.1">>,
    <<"moonshot", "/", "kimi-k2.5">>,
    <<"deepseek", "/", "deepseek-v3.2">>,
    <<"google", "/", "gemini-3-pro-preview">>,
    <<"xai", "/", "grok-4">> }

\* the positions of a model menu that hold such an entry
ModelMenuChoices(models) == {i \in 1..Len(models) : models[i].key \in ModelMenuKeys}

\* ------------------------------------------------------------------ Menu Engine
\* runMenu's result for a prompt that ended with position choice selected
\* (Cancelled: the prompt was cancelled): the item's value, or the
\* cancellation indicator null
runMenuValue(items, choice) == IF choice = Cancelled THEN Null ELSE items[choice]

\* whether runMenu renders its items again once the selected item's action
\* has returned
rendersAgain(loop, value) == loop /\ value # MENU_EXIT

\* The action of the top-level item returns to runMenu, which renders again
\* or returns the selected value; the action's locals are gone.
ActionReturns ==
  /\ pc' = IF rendersAgain(TopLoop, chosen) THEN "menu" ELSE "done"
  /\ renders' = IF rendersAgain(TopLoop, chosen) THEN renders + 1 ELSE renders
  /\ result' = IF rendersAgain(TopLoop, chosen) THEN result ELSE chosen
  /\ chosen' = Null
  /\ curVendor' = Null
  /\ baseUrl' = <<>>
  /\ filteredModels' = <<>>
  /\ curProvider' = Null
  /\ api' = NoApi
  /\ selectedModel' = NoModel
  /\ configuredModels' = {}
  /\ currentModel' = NullKey

\* The top-level prompt is cancelled: runMenu returns the cancellation
\* indicator and runConfigLoop returns.
MenuCancel ==
  /\ pc = "menu"
  /\ pc' = "done"
  /\ result' = runMenuValue(TopItems, Cancelled)
  /\ lastStep' = [at |-> "menu", input |-> "cancel"]
  /\ UNCHANGED <<file, creds, chosen, locals, pipe, log, startFile, startCreds,
                 renders, selections, actionCalls>>
  /\ UNCHANGED fvars /\ UNCHANGED dvars

\* The EXIT item is selected: it has no action; runMenu returns.
MenuExit ==
  /\ pc = "menu"
  /\ pc' = IF rendersAgain(TopLoop, MENU_EXIT) THEN "menu" ELSE "done"
  /\ result' = MENU_EXIT
  /\ lastStep' = [at |-> "menu", input |-> MENU_EXIT]
  /\ UNCHANGED <<file, creds, chosen, locals, pipe, log, startFile, startCreds,
                 renders, selections, actionCalls>>
  /\ UNCHANGED fvars /\ UNCHANGED dvars

\* "add" is selected: runMenu invokes configureProvider, which opens the
\* vendor menu.
MenuAdd ==
  /\ pc = "menu"
  /\ selections < MaxRounds
  /\ chosen' = "add"
  /\ pc' = "vendor"
  /\ selections' = selections + 1
  /\ actionCalls' = actionCalls + 1
  /\ lastStep' = [at |-> "menu", input |-> "add"]
  /\ log' = <<>>
  /\ startFile' = file
  /\ startCreds' = creds
  /\ ops' = <<>> /\ opIdx' = 1 /\ started' = FALSE /\ failed' = NoFailure
  /\ UNCHANGED <<file, creds, locals, inflight, renders, result>>
  /\ UNCHANGED fvars /\ UNCHANGED dvars

\* "select_model" is selected: runMenu invokes selectConfiguredModel, which
\* reads the configured models and the primary model and opens its menu, or
\* returns when no model is configured.
MenuSelectModel ==
  /\ pc = "menu"
  /\ selections < MaxRounds
  /\ selections' = selections + 1
  /\ actionCalls' = actionCalls + 1
  /\ lastStep' = [at |-> "menu", input |-> "select_model"]
  /\ log' = <<>>
  /\ startFile' = file
  /\ startCreds' = creds
  /\ ops' = <<>> /\ opIdx' = 1 /\ started' = FALSE /\ failed' = NoFailure
  /\ LET r == readOpenclawConfig(file)
     IN IF r.threw
        THEN /\ pc' = "threw"
             /\ chosen' = "select_model"
             /\ UNCHANGED <<locals, renders, result>>
        ELSE IF getConfiguredModels(r.config) = {}
        THEN /\ pc' = IF rendersAgain(TopLoop, "select_model") THEN "menu" ELSE "done"
             /\ renders' = IF rendersAgain(TopLoop, "select_model")
                           THEN renders + 1 ELSE renders
             /\ result' = IF rendersAgain(TopLoop, "select_model")
                          THEN result ELSE "select_model"
             /\ UNCHANGED <<chosen, locals>>
        ELSE /\ pc' = "pickConfigured"
             /\ chosen' = "select_model"
             /\ configuredModels' = getConfiguredModels(r.config)
             /\ currentModel' = getPrimaryModel(r.config)
             /\ UNCHANGED <<curVendor, baseUrl, filteredModels, curProvider, api,
                            selectedModel, renders, result>>
  /\ UNCHANGED <<file, creds, inflight>>
  /\ UNCHANGED fvars /\ UNCHANGED dvars

\* ------------------------------------------------------------------ configureProvider
\* "if (!vendor) return"
vendorMissingNever(v) == FALSE

vendorMissing(v) == v = Null

\* Step 1 and, for 12api, Step 2: the vendor menu's prompt ends.
VendorStep ==
  /\ pc = "vendor"
  /\ \E choice \in 0..Len(VendorItems) :
       LET v == runMenuValue(VendorItems, choice)
       IN /\ lastStep' = [at |-> "vendor",
                          input |-> IF choice = Cancelled THEN "cancel" ELSE "value"]
          /\ IF vendorMissing(v)
             THEN ActionReturns
             ELSE /\ curVendor' = v
                  /\ IF v = "12api"
                     THEN baseUrl' = TWELVE_API_BASE_URL /\ pc' = "fetch"
                     ELSE baseUrl' = <<>> /\ pc' = "baseUrl"
                  /\ UNCHANGED <<chosen, filteredModels, curProvider, api, selectedModel,
                                 configuredModels, currentModel, renders, result>>
  /\ UNCHANGED <<file, creds, pipe, log, startFile, startCreds, selections, actionCalls>>
  /\ UNCHANGED fvars /\ UNCHANGED dvars

\* Step 2 for another vendor: escInput ends with a line, a cancellation (null
\* is returned) or another error (rethrown).
BaseUrlStep ==
  /\ pc = "baseUrl"
  /\ \E outcome \in {"value", "cancel", "error"}, line \in BaseUrlInputs :
       /\ (outcome # "value" => line = <<>>)
       /\ lastStep' = [at |-> "baseUrl", input |-> outcome]
       /\ IF outcome = "error"
          THEN pc' = "threw" /\ UNCHANGED <<chosen, locals, renders, result>>
          ELSE IF outcome = "cancel" \/ line = <<>>
          THEN ActionReturns
          ELSE /\ baseUrl' = line
               /\ pc' = "fetch"
               /\ UNCHANGED <<chosen, curVendor, filteredModels, curProvider, api,
                              selectedModel, configuredModels, currentModel, renders,
                              result>>
  /\ UNCHANGED <<file, creds, pipe, log, startFile, startCreds, selections, actionCalls>>
  /\ UNCHANGED fvars /\ UNCHANGED dvars

\* fetchModels: throws when the external tool exits with a status other than
\* 0 or prints text JSON.parse rejects; returns the registry otherwise
fetchModels(status, wellFormed, models) ==
  IF status # 0 THEN [threw |-> TRUE, models |-> <<>>]
  ELSE IF ~wellFormed THEN [threw |-> TRUE, models |-> <<>>]
  ELSE [threw |-> FALSE, models |-> models]

\* a variant of Step 3 without the catch block's return
fetchFailedNever(r) == FALSE

\* Step 3: the catch block is entered
fetchFailed(r) == r.threw

\* a variant of Step 3 that goes on with an empty list
noModelsAvailableNever(filtered) == FALSE

\* Step 3: "if (filteredModels.length === 0)"
noModelsAvailable(filtered) == Len(filtered) = 0

\* Step 3: fetchModels throws (non-zero exit, malformed JSON) or returns a
\* registry, which is filtered; an empty list ends the flow.  What the
\* external tool did is noted as exit, malformed, empty (a registry of which
\* the filter leaves nothing) or ok.
FetchStep ==
  /\ pc = "fetch"
  /\ \E status \in {0, 1}, wellFormed \in BOOLEAN, models \in FlowRegistries :
       LET r == fetchModels(status, wellFormed, models)
           filtered == filterModelsByVendor(r.models, curVendor)
       IN
       \* what the tool printed is not read once it has failed
       /\ (status # 0 \/ ~wellFormed) => models = <<>>
       /\ status # 0 => wellFormed
       /\ lastStep' = [at |-> "fetch",
                       input |-> IF status # 0 THEN "exit"
                                 ELSE IF ~wellFormed THEN "malformed"
                                 ELSE IF Len(filtered) = 0 THEN "empty" ELSE "ok"]
       /\ IF fetchFailed(r) \/ noModelsAvailable(filtered)
          THEN ActionReturns
          ELSE /\ filteredModels' = filtered
               /\ pc' = "selectModel"
               /\ UNCHANGED <<chosen, curVendor, baseUrl, curProvider, api, selectedModel,
                              configuredModels, currentModel, renders, result>>
  /\ UNCHANGED <<file, creds, pipe, log, startFile, startCreds, selections, actionCalls>>
  /\ UNCHANGED fvars /\ UNCHANGED dvars

\* Steps 4 and 5: the model menu's prompt ends; the provider and the api
\* type of the selected model are determined.
SelectModelStep ==
  /\ pc = "selectModel"
  /\ \E choice \in {Cancelled} \cup ModelMenuChoices(filteredModels) :
       /\ lastStep' = [at |-> "selectModel",
                       input |-> IF choice = Cancelled THEN "cancel"
                                 ELSE IF PrefixAt(filteredModels[choice].key,
                                                  allowedOf(curVendor)) = {}
                                 THEN "unsupported" ELSE "value"]
       /\ IF choice = Cancelled
          THEN ActionReturns
          ELSE IF resolveProvider(curVendor, filteredModels[choice].key) = Null
          THEN ActionReturns
          ELSE /\ selectedModel' = filteredModels[choice]
               /\ curProvider' = resolveProvider(curVendor, filteredModels[choice].key)
               /\ api' = findVendorModel(curVendor, filteredModels[choice].key).api
               /\ pc' = "apiKey"
               /\ UNCHANGED <<chosen, curVendor, baseUrl, filteredModels, configuredModels,
                              currentModel, renders, result>>
  /\ UNCHANGED <<file, creds, pipe, log, startFile, startCreds, selections, actionCalls>>
  /\ UNCHANGED fvars /\ UNCHANGED dvars

\* a variant of Step 6 that goes on with an undefined key after a cancellation
apiKeyCancelledNever(outcome) == FALSE

\* Step 6: "if (isPromptCancelled(err)) return"
apiKeyCancelled(outcome) == outcome = "cancel"

\* Steps 6 and 7: escPassword ends; the operation list is handed to
\* runOperations.
ApiKeyStep ==
  /\ pc = "apiKey"
  /\ \E outcome \in {"value", "cancel", "error"}, apiKey \in ApiKeyInputs :
       /\ lastStep' = [at |-> "apiKey", input |-> outcome]
       /\ IF outcome = "error"
          THEN pc' = "threw" /\ UNCHANGED <<chosen, locals, renders, result, pipe>>
          ELSE IF apiKeyCancelled(outcome)
          THEN ActionReturns /\ UNCHANGED pipe
          ELSE /\ ops' = buildOperations(selectedModel, baseUrl, curProvider, api, apiKey)
               /\ opIdx' = 1 /\ started' = FALSE /\ failed' = NoFailure
               /\ pc' = "pipeline"
               /\ UNCHANGED <<chosen, locals, renders, result, inflight>>
  /\ UNCHANGED <<file, creds, log, startFile, startCreds, selections, actionCalls>>
  /\ UNCHANGED fvars /\ UNCHANGED dvars

\* ------------------------------------------------------------------ selectConfiguredModel
\* a variant that returns on a cancellation only
nothingToSwitchOnlyCancel(selected, current) == selected = NullKey

\* "if (!selected || selected === currentModel) return"
nothingToSwitch(selected, current) == selected = NullKey \/ selected = current

\* The configured-model menu's prompt ends.
PickConfiguredStep ==
  /\ pc = "pickConfigured"
  /\ \E selected \in configuredModels \cup {NullKey} :
       /\ lastStep' = [at |-> "pickConfigured",
                       input |-> IF selected = NullKey THEN "cancel"
                                 ELSE IF selected = currentModel THEN "current"
                                 ELSE "value"]
       /\ IF nothingToSwitch(selected, currentModel)
          THEN ActionReturns /\ UNCHANGED pipe
          ELSE /\ ops' = <<createSetModel(selected)>>
               /\ opIdx' = 1 /\ started' = FALSE /\ failed' = NoFailure
               /\ pc' = "pipeline"
               /\ UNCHANGED <<chosen, locals, renders, result, inflight>>
  /\ UNCHANGED <<file, creds, log, startFile, startCreds, selections, actionCalls>>
  /\ UNCHANGED fvars /\ UNCHANGED dvars

\* ------------------------------------------------------------------ Operation Pipeline
Event(ev, idx) == [ev |-> ev, idx |-> idx]

\* a variant of the loop that goes on to the next operation after a failure
loopGoesOnAfterFailure(fl, i, list) == i <= Len(list)

\* the loop of runOperations goes on: no operation has failed and one is left
loopGoesOn(fl, i, list) == fl = NoFailure /\ i <= Len(list)

\* a variant that finalizes only after a pipeline without failure
shouldFinalizeOnSuccess(st, fl) == st /\ fl = NoFailure

\* the finalize step is due: at least one operation started
shouldFinalize(st, fl) == st

\* An operation that rewrites the document starts: it reads the file, or the
\* read fails (an I/O error, or content that does not parse) and with it the
\* operation.
OpBeginDoc ==
  /\ pc = "pipeline"
  /\ inflight = {}
  /\ loopGoesOn(failed, opIdx, ops)
  /\ IsDocOp(ops[opIdx])
  /\ started' = TRUE
  /\ \E ioError \in BOOLEAN :
       LET r == readOpenclawConfig(file)
       IN IF ioError \/ r.threw
          THEN /\ failed' = [name |-> ops[opIdx].name, idx |-> opIdx]
               /\ log' = log \o <<Event("begin", opIdx), Event("fail", opIdx)>>
               /\ opIdx' = opIdx + 1
               /\ UNCHANGED <<pc, inflight>>
          ELSE /\ inflight' = {[idx |-> opIdx, config |-> r.config]}
               /\ log' = Append(log, Event("begin", opIdx))
               /\ pc' = "applying"
               /\ UNCHANGED <<failed, opIdx>>
  /\ UNCHANGED <<file, creds, ops, chosen, locals, menu, startFile, startCreds, lastStep>>
  /\ UNCHANGED fvars /\ UNCHANGED dvars

\* The operation in flight modifies its copy and writes it back.
OpEndDoc ==
  /\ pc = "applying"
  /\ \E m \in inflight :
       /\ IsDocOp(ops[m.idx])
       /\ file' = writeOpenclawConfig(applyDoc(ops[m.idx], m.config))
       /\ inflight' = inflight \ {m}
       /\ log' = Append(log, Event("end", m.idx))
  /\ opIdx' = opIdx + 1
  /\ pc' = "pipeline"
  /\ UNCHANGED <<creds, ops, started, failed, chosen, locals, menu, startFile,
                 startCreds, lastStep>>
  /\ UNCHANGED fvars /\ UNCHANGED dvars

\* The credential operation starts: the external tool is invoked.
OpBeginApiKey ==
  /\ pc = "pipeline"
  /\ inflight = {}
  /\ loopGoesOn(failed, opIdx, ops)
  /\ ~IsDocOp(ops[opIdx])
  /\ started' = TRUE
  /\ inflight' = {[idx |-> opIdx, config |-> EmptyObj]}
  /\ log' = Append(log, Event("begin", opIdx))
  /\ pc' = "applying"
  /\ UNCHANGED <<file, creds, ops, opIdx, failed, chosen, locals, menu, startFile,
                 startCreds, lastStep>>
  /\ UNCHANGED fvars /\ UNCHANGED dvars

\* The external tool exits: with status 0 the credential is stored, with
\* another status the operation has failed.
OpEndApiKey ==
  /\ pc = "applying"
  /\ \E m \in inflight, status \in {0, 1} :
       /\ ~IsDocOp(ops[m.idx])
       /\ inflight' = inflight \ {m}
       /\ IF status = 0
          THEN /\ creds' = Put(creds, ops[m.idx].provider, ops[m.idx].apiKey)
               /\ log' = Append(log, Event("end", m.idx))
               /\ UNCHANGED failed
          ELSE /\ failed' = [name |-> ops[m.idx].name, idx |-> m.idx]
               /\ log' = Append(log, Event("fail", m.idx))
               /\ UNCHANGED creds
  /\ opIdx' = opIdx + 1
  /\ pc' = "pipeline"
  /\ UNCHANGED <<file, ops, started, chosen, locals, menu, startFile, startCreds, lastStep>>
  /\ UNCHANGED fvars /\ UNCHANGED dvars

\* The loop is over: when an operation started, meta.lastTouchedAt is updated.
Finalize ==
  /\ pc = "pipeline"
  /\ inflight = {}
  /\ ~loopGoesOn(failed, opIdx, ops)
  /\ IF shouldFinalize(started, failed)
     THEN \E now \in Times :
            /\ file' = triggerGatewayRestart(file, now).file
            /\ log' = Append(log, Event("touch", now))
     ELSE UNCHANGED <<file, log>>
  /\ pc' = "report"
  /\ UNCHANGED <<creds, pipe, chosen, locals, menu, startFile, startCreds, lastStep>>
  /\ UNCHANGED fvars /\ UNCHANGED dvars

\* The outcome is reported and runOperations returns; so does the action that
\* called it.
Report ==
  /\ pc = "report"
  /\ lastStep' = [at |-> "pipeline", input |-> "return"]
  /\ ActionReturns
  /\ UNCHANGED <<file, creds, pipe, log, startFile, startCreds, selections, actionCalls>>
  /\ UNCHANGED fvars /\ UNCHANGED dvars

PipelineNext == OpBeginDoc \/ OpEndDoc \/ OpBeginApiKey \/ OpEndApiKey \/ Finalize \/ Report

\* ------------------------------------------------------------------ Spec: the wizard
Init ==
  /\ file \in FlowInitFiles
  /\ FlowIdle
  /\ DocIdle
  /\ FilterIdle

Next ==
  \/ MenuCancel \/ MenuExit \/ MenuAdd \/ MenuSelectModel
  \/ VendorStep \/ BaseUrlStep \/ FetchStep \/ SelectModelStep \/ ApiKeyStep
  \/ PickConfiguredStep
  \/ OpBeginDoc \/ OpEndDoc \/ OpBeginApiKey \/ OpEndApiKey \/ Finalize \/ Report

Spec == Init /\ [][Next]_vars

\* ------------------------------------------------------------------ OpsSpec: runOperations alone
\* the operations a caller may hand to runOperations
OpPool ==
  { createSetProviderConfig("openai", <<"https://cdn.12ai.org", "/v1">>, NoApi, Undef),
    createSetProviderConfig("anthropic", <<"https://gw.example">>, "anthropic-messages",
                            Def(<<[id |-> <<"kimi-k2.5">>, name |-> <<"Kimi">>]>>)),
    createSetApiKey("openai", "sk-1"),
    createSetModel(K1),
    createSetModel(K2) }

OpsInit ==
  /\ file \in FlowInitFiles
  /\ FlowIdle
  /\ DocIdle
  /\ FilterIdle

\* runOperations is called with a list of operations.
OpsCall ==
  /\ pc = "menu"
  /\ lastStep = NoStep
  /\ \E list \in BoundedSeq(OpPool, MaxOps) : ops' = list
  /\ pc' = "pipeline"
  /\ chosen' = "add"
  /\ lastStep' = [at |-> "caller", input |-> "call"]
  /\ UNCHANGED <<file, creds, locals, opIdx, started, failed, inflight, menu, log,
                 startFile, startCreds>>
  /\ UNCHANGED fvars /\ UNCHANGED dvars

OpsNext ==
  \/ OpsCall
  \/ OpBeginDoc \/ OpEndDoc \/ OpBeginApiKey \/ OpEndApiKey \/ Finalize \/ Report

OpsSpec == OpsInit /\ [][OpsNext]_vars

\* the JSON value a reader finds in a file
DocOf(f) == IF f.exists /\ f.wellFormed THEN f.json ELSE EmptyObj

Sub(o, k) == IF Has(o, k) THEN o[k] ELSE EmptyObj

\* o2 is o1 except at the keys written: every other key of o1 is in o2 with
\* the same value, and o2 has no further key
Frame(o1, o2, written) ==
  /\ \A k \in DOMAIN o1 \ written : k \in DOMAIN o2 /\ o2[k] = o1[k]
  /\ DOMAIN o2 \subseteq DOMAIN o1 \cup written

\* ------------------------------------------------------------------ pipeline claims
\* runOperations has left its loop and finalized
PipelineOver == pc = "report" \/ lastStep.at = "pipeline"

Events(ev) == {i \in 1..Len(log) : log[i].ev = ev}

\* the file after the first n operations of list, applied in order to f
RECURSIVE FileAfter(_, _, _)
FileAfter(f, list, n) ==
  IF n = 0 THEN f
  ELSE LET g == FileAfter(f, list, n - 1)
           op == list[n]
       IN IF op.name = "setProviderConfig"
          THEN setProviderConfig(g, op.provider, op.config).file
          ELSE IF op.name = "setModel" THEN setModel(g, op.modelKey).file
          ELSE g

\* the credentials after the first n operations of list
RECURSIVE CredsAfter(_, _, _)
CredsAfter(c, list, n) ==
  IF n = 0 THEN c
  ELSE IF list[n].name = "setApiKey"
       THEN Put(CredsAfter(c, list, n - 1), list[n].provider, list[n].apiKey)
       ELSE CredsAfter(c, list, n - 1)

\* a document without its meta subtree
WithoutMeta(o) == [k \in DOMAIN o \ {"meta"} |-> o[k]]

\* the document shows operation j of the list, as far as no later operation
\* among the first n of the list has written the same place
Shows(doc, cr, list, j, n) ==
  LET op == list[j]
      later == {k \in (j + 1)..n : list[k].name = op.name}
  IN IF op.name = "setProviderConfig"
     THEN (\A k \in later : list[k].provider # op.provider) =>
            /\ Has(doc, "models") /\ Has(doc["models"], "providers")
            /\ Has(doc["models"]["providers"], op.provider)
            /\ doc["models"]["providers"][op.provider] = StringifyEntry(op.config)
     ELSE IF op.name = "setModel"
     THEN /\ op.modelKey \in getConfiguredModels(doc)
          /\ later = {} => getPrimaryModel(doc) = op.modelKey
     ELSE (\A k \in later : list[k].provider # op.provider) =>
            /\ Has(cr, op.provider)
            /\ cr[op.provider] = op.apiKey

\* C1: runOperations is fail-stop.  Once operation B has failed, B is the
\* only failure and the one reported, by its name; every operation before B
\* began and ended, in order, and the document and the credentials show it;
\* no operation after B began, and the document (its meta subtree aside) and
\* the credentials are what the operations before B made of them.
C1_FailStop ==
  failed # NoFailure =>
    LET b == failed.idx
    IN /\ b \in 1..Len(ops)
       /\ failed.name = ops[b].name
       /\ Cardinality(Events("fail")) = 1
       /\ \A i \in Events("fail") : log[i].idx = b
       /\ \A j \in 1..(b - 1) :
            /\ \E i \in Events("begin"), e \in Events("end") :
                 i < e /\ log[i].idx = j /\ log[e].idx = j
            /\ Shows(DocOf(file), creds, ops, j, b - 1)
       /\ \A i \in Events("begin") \cup Events("end") : log[i].idx <= b
       /\ WithoutMeta(DocOf(file)) = WithoutMeta(DocOf(FileAfter(startFile, ops, b - 1)))
       /\ creds = CredsAfter(startCreds, ops, b - 1)

\* C1 witness: the list [setProviderConfig openai, setApiKey, setModel K2]
\* has returned after the second operation failed: the provider entry is
\* written, K2 is not the primary model, and the timestamp was touched.
C1_Witness ==
  /\ lastStep.at = "pipeline"
  /\ Len(ops) = 3
  /\ ops[1].name = "setProviderConfig" /\ ops[1].provider = "openai"
  /\ ops[3] = createSetModel(K2)
  /\ failed = [name |-> "setApiKey", idx |-> 2]
  /\ Has(DocOf(file)["models"]["providers"], "openai")
  /\ getPrimaryModel(DocOf(file)) # K2
  /\ Events("touch") # {}

\* C2: the finalize step runs exactly when at least one operation started:
\* never before the loop is over; once the loop is over, after a full success
\* as after a failure, it has run once, as the last event, and
\* meta.lastTouchedAt is the time it wrote; for an empty list it has not run.
C2_FinalizeIffStarted ==
  /\ pc \in {"pipeline", "applying"} => Events("touch") = {}
  /\ PipelineOver =>
       /\ (Events("touch") # {}) <=> (Events("begin") # {})
       /\ (Events("begin") # {}) <=> (Len(ops) > 0)
       /\ Events("touch") # {} =>
            /\ Events("touch") = {Len(log)}
            /\ Has(DocOf(file), "meta")
            /\ Has(DocOf(file)["meta"], "lastTouchedAt")
            /\ DocOf(file)["meta"]["lastTouchedAt"] = log[Len(log)].idx
       /\ Events("touch") = {} => file = startFile

\* C2 witness: a pipeline whose first operation failed at once has touched
\* the timestamp.
C2_Witness ==
  /\ PipelineOver
  /\ Len(ops) = 2
  /\ failed.idx = 1
  /\ Events("touch") = {3}
  /\ DocOf(file)["meta"]["lastTouchedAt"] = 2

\* C2 second case: an empty list has returned and nothing was touched.
C2_WitnessEmpty ==
  /\ lastStep.at = "pipeline" /\ ops = <<>> /\ log = <<>> /\ file = startFile

\* C6: the operations run strictly one after another on fresh reads: at most
\* one read-modify-write cycle is in flight, the copy it holds is the file's
\* current content (nothing was written since it was read), an operation
\* begins only after the one before it has ended, the finalize step comes
\* last, and after a pipeline without failure the document and the
\* credentials show every operation and keep what the document held before.
C6_SequentialFreshReads ==
  /\ Cardinality(inflight) <= 1
  /\ \A m \in inflight :
       /\ pc = "applying"
       /\ m.idx = opIdx
       /\ log[Len(log)] = Event("begin", m.idx)
       /\ IsDocOp(ops[m.idx]) => m.config = Parse(DocOf(file))
  /\ \A i \in Events("begin") :
       /\ log[i].idx = 1 <=> i = 1
       /\ i > 1 => log[i - 1] = Event("end", log[i].idx - 1)
  /\ \A i \in Events("end") \cup Events("fail") :
       i > 1 /\ log[i - 1] = Event("begin", log[i].idx)
  /\ \A i \in Events("touch") : i = Len(log) /\ inflight = {}
  /\ (PipelineOver /\ failed = NoFailure) =>
       /\ \A j \in 1..Len(ops) : Shows(DocOf(file), creds, ops, j, Len(ops))
       /\ Frame(DocOf(startFile), DocOf(file), {"models", "agents", "meta"})
       /\ Cardinality(Events("end")) = Len(ops)

\* C6 witness: the list [setProviderConfig openai, setApiKey openai,
\* setModel K2] has run without failure on a document that held customField:
\* the entry, the credential and the primary model are all there.
C6_Witness ==
  /\ lastStep.at = "pipeline" /\ failed = NoFailure
  /\ Len(ops) = 3
  /\ ops[1].name = "setProviderConfig" /\ ops[1].provider = "openai"
  /\ ops[2].name = "setApiKey"
  /\ ops[3] = createSetModel(K2)
  /\ Has(DocOf(startFile), "customField")
  /\ DocOf(file)["customField"] = 42
  /\ Has(DocOf(file)["models"]["providers"], "openai")
  /\ Has(creds, "openai")
  /\ getPrimaryModel(DocOf(file)) = K2

\* ------------------------------------------------------------------ menu claims
InAction == pc \notin {"menu", "done", "threw"}

Prompts == {"vendor", "baseUrl", "selectModel", "apiKey", "pickConfigured"}

\* C3: the looping top-level menu renders again after every selection other
\* than EXIT, whose action it has invoked once; when EXIT is selected (or the
\* prompt cancelled) it returns without a further action or rendering, and
\* runConfigLoop ends in no other way.
C3_LoopUntilExit ==
  /\ pc = "menu" => renders = selections + 1 /\ actionCalls = selections
  /\ InAction => /\ renders = selections /\ actionCalls = selections
                 /\ chosen \in {"add", "select_model"}
  /\ pc = "done" =>
       /\ lastStep.at = "menu"
       /\ lastStep.input \in {MENU_EXIT, "cancel"}
       /\ result = IF lastStep.input = MENU_EXIT THEN MENU_EXIT ELSE Null
       /\ renders = selections + 1
       /\ actionCalls = selections

\* C3 witness: two selections, each followed by a new rendering, then EXIT.
C3_Witness ==
  /\ pc = "done" /\ result = MENU_EXIT
  /\ selections = 2 /\ actionCalls = 2 /\ renders = 3

\* C4: a cancellation at a prompt of the add-provider flow or at the model
\* menu of the switch-model flow ends the sub-flow before runOperations: no
\* operation and no finalize step has run, and the file and the credentials
\* are what they were when the sub-flow began.  Up to the pipeline no
\* sub-flow has written anything.
C4_CancelLeavesState ==
  /\ (lastStep.input = "cancel" /\ lastStep.at \in Prompts) =>
       /\ pc = "menu"
       /\ ops = <<>> /\ ~started
       /\ log = <<>>
       /\ file = startFile
       /\ creds = startCreds
  /\ pc \in Prompts \cup {"fetch"} => log = <<>> /\ file = startFile /\ creds = startCreds

\* C4 witness: the API-key prompt, the last before the pipeline, is
\* cancelled on an existing document.
C4_Witness ==
  /\ lastStep = [at |-> "apiKey", input |-> "cancel"]
  /\ pc = "menu"
  /\ file.exists /\ file = startFile
  /\ log = <<>>

\* C5: a cancelled menu prompt makes runMenu return the cancellation
\* indicator, not raise: after a cancellation in a nested menu the enclosing
\* menu is rendered again and no action was invoked for it; after one at the
\* top level runMenu has returned no value; only a prompt that failed
\* otherwise raises.
C5_CancelIsNotAnError ==
  /\ (lastStep.input = "cancel" /\ lastStep.at \in {"vendor", "selectModel", "pickConfigured"}) =>
       /\ pc = "menu"
       /\ renders = selections + 1
       /\ actionCalls = selections
       /\ log = <<>>
  /\ (lastStep.input = "cancel" /\ lastStep.at = "menu") =>
       /\ pc = "done"
       /\ result = Null
       /\ actionCalls = selections
  /\ pc = "threw" => lastStep.input = "error"

\* C5 witness: the model menu, nested in the add action, is cancelled and the
\* top-level menu is rendered a second time.
C5_Witness ==
  /\ lastStep = [at |-> "selectModel", input |-> "cancel"]
  /\ pc = "menu"
  /\ renders = 2

\* ------------------------------------------------------------------ DocSpec
DocInit ==
  /\ file \in InitFiles
  /\ before = file
  /\ lastCall = NoCall
  /\ calls = 0
  /\ FilterIdle
  /\ FlowIdle

CallSetProviderConfig ==
  /\ calls < MaxCalls
  /\ \E provider \in DocProviders, config \in DocConfigs :
       LET r == setProviderConfig(file, provider, config)
       IN /\ file' = r.file
          /\ lastCall' = [NoCall EXCEPT !.op = "setProviderConfig", !.provider = provider,
                                        !.config = config, !.threw = r.threw]
  /\ before' = file
  /\ calls' = calls + 1
  /\ UNCHANGED fvars
  /\ UNCHANGED pvars

CallSetModel ==
  /\ calls < MaxCalls
  /\ \E modelKey \in DocModelKeys :
       LET r == setModel(file, modelKey)
       IN /\ file' = r.file
          /\ lastCall' = [NoCall EXCEPT !.op = "setModel", !.modelKey = modelKey,
                                        !.threw = r.threw]
  /\ before' = file
  /\ calls' = calls + 1
  /\ UNCHANGED fvars
  /\ UNCHANGED pvars

CallTriggerGatewayRestart ==
  /\ calls < MaxCalls
  /\ \E now \in Times :
       LET r == triggerGatewayRestart(file, now)
       IN /\ file' = r.file
          /\ lastCall' = [NoCall EXCEPT !.op = "triggerGatewayRestart", !.now = now,
                                        !.threw = r.threw]
  /\ before' = file
  /\ calls' = calls + 1
  /\ UNCHANGED fvars
  /\ UNCHANGED pvars

DocNext == CallSetProviderConfig \/ CallSetModel \/ CallTriggerGatewayRestart

DocSpec == DocInit /\ [][DocNext]_vars

\* ------------------------------------------------------------------ document claims
\* C7: a write by setProviderConfig, setModel or triggerGatewayRestart
\* preserves everything it does not set: unknown top-level keys and the
\* sibling subtrees keep their values, an absent subtree is created, and in
\* models.providers only the written provider's entry changes.
C7_WritesPreserveRest ==
  (lastCall.op # "none" /\ ~lastCall.threw) =>
    LET b == DocOf(before)
        a == file.json
    IN /\ file.exists /\ file.wellFormed
       /\ lastCall.op = "setProviderConfig" =>
            /\ Frame(b, a, {"models"})
            /\ Has(a, "models")
            /\ Frame(Sub(b, "models"), a["models"], {"mode", "providers"})
            /\ Has(a["models"], "providers")
            /\ a["models"]["mode"] = "merge"
            /\ Frame(Sub(Sub(b, "models"), "providers"), a["models"]["providers"],
                     {lastCall.provider})
            /\ Has(a["models"]["providers"], lastCall.provider)
            /\ a["models"]["providers"][lastCall.provider] = StringifyEntry(lastCall.config)
       /\ lastCall.op = "setModel" =>
            LET bd == Sub(Sub(b, "agents"), "defaults")
            IN /\ Frame(b, a, {"agents"})
               /\ Has(a, "agents")
               /\ Frame(Sub(b, "agents"), a["agents"], {"defaults"})
               /\ Has(a["agents"], "defaults")
               /\ Frame(bd, a["agents"]["defaults"], {"model", "models"})
               /\ Has(a["agents"]["defaults"], "model")
               /\ Has(a["agents"]["defaults"], "models")
               /\ Frame(Sub(bd, "model"), a["agents"]["defaults"]["model"], {"primary"})
               /\ a["agents"]["defaults"]["model"]["primary"] = lastCall.modelKey
               /\ Frame(Sub(bd, "models"), a["agents"]["defaults"]["models"],
                        {lastCall.modelKey})
               /\ Has(a["agents"]["defaults"]["models"], lastCall.modelKey)
       /\ lastCall.op = "triggerGatewayRestart" =>
            /\ Frame(b, a, {"meta"})
            /\ Has(a, "meta")
            /\ Frame(Sub(b, "meta"), a["meta"], {"lastTouchedAt"})
            /\ a["meta"]["lastTouchedAt"] = lastCall.now

\* C7 witness: setProviderConfig for openai on a document that holds
\* customField = 42, an agents and a meta subtree and another provider's
\* entry: all of them are in the file written, beside the new entry.
C7_Witness ==
  /\ lastCall.op = "setProviderConfig" /\ ~lastCall.threw
  /\ lastCall.provider = "openai"
  /\ Has(DocOf(before), "customField") /\ DocOf(before)["customField"] = 42
  /\ Has(DocOf(before), "agents") /\ Has(DocOf(before), "meta")
  /\ Has(Sub(Sub(DocOf(before), "models"), "providers"), "anthropic")
  /\ file.json["customField"] = 42
  /\ file.json["agents"] = DocOf(before)["agents"]
  /\ Has(file.json["models"]["providers"], "anthropic")
  /\ Has(file.json["models"]["providers"], "openai")

\* ------------------------------------------------------------------ FilterSpec
FilterInit ==
  /\ fModels \in BoundedSeq(RegistryPool, MaxModels)
  /\ fVendor \in FilterVendors
  /\ fOut = <<>>
  /\ fOut2 = <<>>
  /\ fpc = "input"
  /\ ResolveIdle
  /\ file = NoFile
  /\ DocIdle
  /\ FlowIdle

ApplyFilter ==
  /\ fpc = "input"
  /\ fOut' = filterModelsByVendor(fModels, fVendor)
  /\ fpc' = "once"
  /\ UNCHANGED <<fModels, fVendor, fOut2, file>>
  /\ UNCHANGED rvars
  /\ UNCHANGED dvars
  /\ UNCHANGED pvars

ApplyFilterAgain ==
  /\ fpc = "once"
  /\ fOut2' = filterModelsByVendor(fOut, fVendor)
  /\ fpc' = "twice"
  /\ UNCHANGED <<fModels, fVendor, fOut, file>>
  /\ UNCHANGED rvars
  /\ UNCHANGED dvars
  /\ UNCHANGED pvars

FilterNext == ApplyFilter \/ ApplyFilterAgain

FilterSpec == FilterInit /\ [][FilterNext]_vars

\* ------------------------------------------------------------------ resolver claims
KeysOf(models) == {models[i].key : i \in 1..Len(models)}

CatalogKey(vm) == MakeKey(vm.provider, vm.name)

\* the registry entries the vendor's filter keeps, in registry order
KeptOf(models, vendor) ==
  LET filter == VENDOR_FILTERS[vendor]
      modelNames == {filter.models[i].name : i \in 1..Len(filter.models)}
  IN SelectSeq(models, LAMBDA m : KeepModel(m, filter, modelNames))

\* the catalog positions whose key the kept entries lack
MissingOf(models, vendor) ==
  LET catalog == VENDOR_FILTERS[vendor].models
  IN {i \in 1..Len(catalog) : CatalogKey(catalog[i]) \notin KeysOf(KeptOf(models, vendor))}

\* the k-th smallest member of a finite set of numbers
KthOf(S, k) == CHOOSE i \in S : Cardinality({j \in S : j < i}) = k - 1

CuratedVendor(vendor) ==
  vendor \in DOMAIN VENDOR_FILTERS /\ Len(VENDOR_FILTERS[vendor].models) > 0

\* C8: filterModelsByVendor is idempotent: filtering its own output for the
\* same vendor yields the same sequence (same entries, same order), so the
\* second application synthesizes nothing.
C8_FilterIdempotent == fpc = "twice" => fOut2 = fOut

\* C8 witness: a curated vendor, a registry of which one entry is kept and one
\* dropped, and an output holding synthesized entries, filtered twice.
C8_Witness ==
  /\ fpc = "twice"
  /\ fVendor = "12api"
  /\ Len(KeptOf(fModels, fVendor)) = 1
  /\ Len(fModels) >= 2
  /\ Len(fOut) > 1
  /\ fOut2 = fOut

\* C9: for a vendor with a non-empty catalog the output is the kept registry
\* entries followed, in catalog order, by one synthetic entry per catalog
\* entry whose key provider/name the kept entries lack; every catalog key
\* occurs in the output; a synthetic entry has available = true, missing =
\* false, contextWindow = 0 and no tags; no key is synthesized twice.
C9_SyntheticAppended ==
  (fpc = "once" /\ CuratedVendor(fVendor)) =>
    LET catalog == VENDOR_FILTERS[fVendor].models
        kept == KeptOf(fModels, fVendor)
        miss == MissingOf(fModels, fVendor)
        n == Len(kept)
    IN /\ Len(fOut) = n + Cardinality(miss)
       /\ SubSeq(fOut, 1, n) = kept
       /\ \A k \in 1..Cardinality(miss) :
            LET vm == catalog[KthOf(miss, k)]
                e == fOut[n + k]
            IN /\ e.key = CatalogKey(vm)
               /\ e.name = vm.name
               /\ e.available = TRUE
               /\ e.missing = FALSE
               /\ e.contextWindow = 0
               /\ e.tags = {}
       /\ \A i \in 1..Len(catalog) : CatalogKey(catalog[i]) \in KeysOf(fOut)
       /\ \A j, k \in (n + 1)..Len(fOut) : fOut[j].key = fOut[k].key => j = k

\* C9 witness: the registry holds openai/gpt-5.1 and lacks
\* google/gemini-3-pro-preview; the output keeps the first and ends with the
\* eleven synthesized entries, the gemini one among them.
C9_Witness ==
  /\ fpc = "once"
  /\ fVendor = "12api"
  /\ <<"openai", "/", "gpt-5.1">> \in KeysOf(fModels)
  /\ <<"google", "/", "gemini-3-pro-preview">> \notin KeysOf(fModels)
  /\ Len(fOut) = Len(KeptOf(fModels, fVendor)) + 11
  /\ \E j \in 1..Len(fOut) :
       /\ fOut[j].key = <<"google", "/", "gemini-3-pro-preview">>
       /\ fOut[j].available /\ ~fOut[j].missing

\* C10: for the escape-hatch vendor (no allowed providers, empty catalog) the
\* output is the input: same entries, same order, nothing removed, nothing
\* synthesized.
C10_EscapeHatchUnchanged ==
  (fpc # "input" /\ fVendor \in DOMAIN VENDOR_FILTERS
     /\ Len(VENDOR_FILTERS[fVendor].providers) = 0
     /\ Len(VENDOR_FILTERS[fVendor].models) = 0)
  => fOut = fModels

\* C10 witness: the escape-hatch vendor applied to a registry that holds a
\* provider outside the enumeration and a key without "/".
C10_Witness ==
  /\ fpc = "once"
  /\ fVendor = "other"
  /\ <<"xai", "/", "grok-4">> \in KeysOf(fModels)
  /\ <<"gpt-5.1">> \in KeysOf(fModels)
  /\ fOut = fModels

\* ------------------------------------------------------------------ ResolveSpec
\* Model keys a caller may hand to the resolver: catalog keys (one with an api
\* type), an allowed provider paired with another provider's catalog name, a
\* provider outside the enumeration, keys without "/", a key with two "/", a
\* key that begins with a provider id not followed by "/", a key that begins
\* with "/", and the empty string.
ResolveKeys ==
  { <<"openai", "/", "gpt-5.1">>,
    <<"moonshot", "/", "kimi-k2.5">>,
    <<"openai", "/", "claude-opus-4-6">>,
    <<"xai", "/", "grok-4">>,
    <<"gpt-5.1">>,
    <<"openai">>,
    <<"openai", "-compat", "/", "gpt-5.1">>,
    <<"anthropic", "/", "eu", "/", "claude-opus-4-6">>,
    <<"/", "gpt-5.1">>,
    <<>> }

\* the provider lists a caller may pass, repetitions included, or none
ResolveProviderLists ==
  {NoProviders}
  \cup {[given |-> TRUE, list |-> l] :
          l \in BoundedSeq({"openai", "anthropic", "moonshot"}, MaxProviders)}

ResolveInit ==
  /\ rKey \in ResolveKeys
  /\ rAllowed \in ResolveProviderLists
  /\ rVendor \in FilterVendors
  /\ rOut = Null
  /\ rFound = NoVendorModel
  /\ rpc = "input"
  /\ fModels = <<>> /\ fVendor = "other" /\ fOut = <<>> /\ fOut2 = <<>> /\ fpc = "input"
  /\ file = NoFile
  /\ DocIdle
  /\ FlowIdle

CallIsSupportedProvider ==
  /\ rpc = "input"
  /\ rOut' = isSupportedProvider(rKey, providersOrDefault(rAllowed))
  /\ rpc' = "resolved"
  /\ UNCHANGED <<rKey, rAllowed, rVendor, rFound>>
  /\ UNCHANGED <<fModels, fVendor, fOut, fOut2, fpc, file>>
  /\ UNCHANGED dvars
  /\ UNCHANGED pvars

CallFindVendorModel ==
  /\ rpc = "input"
  /\ rFound' = findVendorModel(rVendor, rKey)
  /\ rpc' = "found"
  /\ UNCHANGED <<rKey, rAllowed, rVendor, rOut>>
  /\ UNCHANGED <<fModels, fVendor, fOut, fOut2, fpc, file>>
  /\ UNCHANGED dvars
  /\ UNCHANGED pvars

ResolveNext == CallIsSupportedProvider \/ CallFindVendorModel

ResolveSpec == ResolveInit /\ [][ResolveNext]_vars

\* C11: isSupportedProvider(k, P), P being the list given or else the full
\* enumeration, returns none exactly when no provider of P followed by "/" is
\* a prefix of k; otherwise it returns the provider at the first such
\* position of P, which is a member of P.
C11_FirstMatchingProvider ==
  rpc = "resolved" =>
    LET P == IF rAllowed.given THEN rAllowed.list ELSE SUPPORTED_PROVIDERS
        hits == PrefixAt(rKey, P)
    IN /\ (rOut = Null) <=> (hits = {})
       /\ hits # {} =>
            /\ \E i \in hits : (\A j \in hits : i <= j) /\ rOut = P[i]
            /\ \E i \in 1..Len(P) : P[i] = rOut

\* C11 witness: the list <<anthropic, openai>> and the key openai/gpt-5.1:
\* the first provider does not match, the second is returned.
C11_Witness ==
  /\ rpc = "resolved"
  /\ rAllowed = [given |-> TRUE, list |-> <<"anthropic", "openai">>]
  /\ rKey = <<"openai", "/", "gpt-5.1">>
  /\ rOut = "openai"

\* C11 second case: no list is given and the key begins with a provider id
\* that no "/" follows; none is returned.
C11_WitnessNone ==
  /\ rpc = "resolved"
  /\ rAllowed = NoProviders
  /\ rKey = <<"openai", "-compat", "/", "gpt-5.1">>
  /\ rOut = Null

\* C15: findVendorModel(vendor, modelKey) returns a catalog entry of the
\* vendor exactly when some entry's name is what follows the first "/" of the
\* key and its provider is the one the key resolves to (the key is then that
\* entry's provider/name); it returns none for an unknown vendor, for the
\* vendor with the empty catalog, and for a key without such an entry.
C15_FindVendorModel ==
  rpc = "found" =>
    LET known == rVendor \in DOMAIN VENDOR_FILTERS
        catalog == IF known THEN VENDOR_FILTERS[rVendor].models ELSE <<>>
        slashAt == {i \in 1..Len(rKey) : rKey[i] = Slash}
        hits == {i \in 1..Len(catalog) :
                   /\ slashAt # {}
                   /\ \E f \in slashAt :
                        /\ \A g \in slashAt : f <= g
                        /\ catalog[i].name = SubSeq(rKey, f + 1, Len(rKey))
                   /\ PrefixAt(rKey, SUPPORTED_PROVIDERS) # {}
                   /\ PrefixAt(rKey, <<catalog[i].provider>>) # {}}
    IN /\ (rFound = NoVendorModel) <=> (hits = {})
       /\ hits # {} =>
            /\ \E i \in hits : rFound = catalog[i]
            /\ rKey = CatalogKey(rFound)
       /\ ~known => rFound = NoVendorModel
       /\ Len(catalog) = 0 => rFound = NoVendorModel

\* C15 witness: the curated vendor and the key moonshot/kimi-k2.5: the entry
\* found carries the api type anthropic-messages.
C15_Witness ==
  /\ rpc = "found"
  /\ rVendor = "12api"
  /\ rKey = <<"moonshot", "/", "kimi-k2.5">>
  /\ rFound.name = <<"kimi-k2.5">>
  /\ rFound.provider = "moonshot"
  /\ rFound.api = "anthropic-messages"

\* C15 second case: an allowed provider paired with another provider's
\* catalog name has no entry.
C15_WitnessNone ==
  /\ rpc = "found"
  /\ rVendor = "12api"
  /\ rKey = <<"openai", "/", "claude-opus-4-6">>
  /\ rFound = NoVendorModel

\* ------------------------------------------------------------------ endorsement
\* C16: for a vendor with a non-empty catalog, every entry of the filtered
\* result has the key provider/name of some catalog entry of that vendor, so
\* that findVendorModel finds an entry for it: the result holds no model the
\* vendor does not endorse.
C16_OnlyEndorsed ==
  (fpc = "once" /\ CuratedVendor(fVendor)) =>
    LET catalog == VENDOR_FILTERS[fVendor].models
    IN \A j \in 1..Len(fOut) :
         /\ \E i \in 1..Len(catalog) : fOut[j].key = CatalogKey(catalog[i])
         /\ findVendorModel(fVendor, fOut[j].key) # NoVendorModel

\* ------------------------------------------------------------------ flow claims
\* the sub-flow has returned to the top-level menu and nothing was done: no
\* operation list was built, no operation and no finalize step ran, and the
\* file and the credentials are what they were when the sub-flow began
ReturnedUntouched ==
  /\ pc = "menu"
  /\ ops = <<>> /\ ~started /\ failed = NoFailure
  /\ log = <<>>
  /\ file = startFile
  /\ creds = startCreds

\* C12: when fetchModels fails (the external tool exits non-zero or prints
\* malformed JSON) the add-provider flow returns at once: no model menu and
\* no API-key prompt follows, no operation and no finalize step has run, and
\* the file is what it was.
C12_FetchFailureAborts ==
  (lastStep.at = "fetch" /\ lastStep.input \in {"exit", "malformed"}) =>
    /\ ReturnedUntouched
    /\ filteredModels = <<>>
    /\ selectedModel = NoModel

\* C12 witness: the external tool printed malformed JSON while a document
\* with a timestamp existed; the flow is back at the menu and the file is
\* the same.
C12_Witness ==
  /\ lastStep = [at |-> "fetch", input |-> "malformed"]
  /\ pc = "menu"
  /\ file.exists /\ Has(DocOf(file), "meta")
  /\ file = startFile

\* C12 second case: the external tool exited with a status other than 0.
C12_WitnessExit ==
  /\ lastStep = [at |-> "fetch", input |-> "exit"]
  /\ pc = "menu"
  /\ file = startFile

\* C13: neither a fetch failure nor a failed operation ends the program.
\* After a fetch failure the top-level menu is rendered again; after an
\* operation has failed the pipeline can always finalize and report, the
\* action then returns and the menu is rendered again; runConfigLoop has not
\* returned and nothing was raised.  The rendered menu accepts EXIT and, as
\* long as the user goes on, a further selection; the loop ends only by EXIT
\* (or a cancelled top-level prompt), and only a prompt error raises.
C13_FailureReturnsToMenu ==
  /\ (lastStep.at = "fetch" /\ lastStep.input \in {"exit", "malformed"}) =>
       /\ pc = "menu" /\ renders = selections + 1 /\ result = Null
  /\ failed # NoFailure =>
       /\ pc \in {"pipeline", "report", "menu", "done"}
       /\ pc = "pipeline" => ENABLED Finalize
       /\ pc = "report" => ENABLED Report
       /\ lastStep.at = "pipeline" =>
            /\ pc = "menu" /\ renders = selections + 1 /\ result = Null
  /\ pc = "menu" =>
       /\ ENABLED MenuExit
       /\ selections < MaxRounds => ENABLED MenuAdd /\ ENABLED MenuSelectModel
  /\ pc = "done" => lastStep.at = "menu" /\ lastStep.input \in {MENU_EXIT, "cancel"}
  /\ pc = "threw" => lastStep.input = "error"

\* C13 witness: the second round's fetch failed and the menu is rendered a
\* third time.
C13_Witness ==
  /\ lastStep = [at |-> "fetch", input |-> "exit"]
  /\ pc = "menu"
  /\ renders = 3

\* C13 second case: the first round's pipeline reported a failed operation
\* and the menu is rendered a second time.
C13_WitnessFailedOp ==
  /\ failed # NoFailure
  /\ lastStep = [at |-> "pipeline", input |-> "return"]
  /\ pc = "menu"
  /\ renders = 2

\* C13 third case: EXIT was selected at the menu rendered after a failed
\* operation.
C13_WitnessExit ==
  /\ failed # NoFailure
  /\ pc = "done" /\ result = MENU_EXIT

\* C14: the three no-op conditions mutate nothing.  When the filter leaves
\* no model, when no model is configured (and only then, at the switch-model
\* item), or when the model selected is the one already primary, the flow
\* returns without an operation and without the finalize step, and the file,
\* meta.lastTouchedAt included, is what it was.
C14_NoOpConditions ==
  /\ lastStep = [at |-> "fetch", input |-> "empty"] => ReturnedUntouched
  /\ lastStep = [at |-> "menu", input |-> "select_model"] =>
       IF getConfiguredModels(DocOf(file)) = {}
       THEN ReturnedUntouched
       ELSE pc = "pickConfigured" /\ file = startFile
  /\ lastStep = [at |-> "pickConfigured", input |-> "current"] => ReturnedUntouched

\* C14 witness: the primary model K1 is selected again in the switch-model
\* flow.
C14_Witness ==
  /\ lastStep = [at |-> "pickConfigured", input |-> "current"]
  /\ pc = "menu"
  /\ getPrimaryModel(DocOf(file)) = K1
  /\ file = startFile

\* C14 second case: the registry is empty for the vendor "other".
C14_WitnessEmpty ==
  /\ lastStep = [at |-> "fetch", input |-> "empty"]
  /\ pc = "menu"
  /\ file = startFile

\* C14 third case: switch-model on a document with a timestamp and no
\* configured model.
C14_WitnessNoneConfigured ==
  /\ lastStep = [at |-> "menu", input |-> "select_model"]
  /\ pc = "menu"
  /\ Has(DocOf(file), "meta")
  /\ getConfiguredModels(DocOf(file)) = {}
  /\ file = startFile

\* the entry of provider p in models.providers of a document, or the empty
\* object when there is none
ProviderEntry(doc, p) == Sub(Sub(Sub(doc, "models"), "providers"), p)

\* C17: the add-provider flow hands runOperations the list set-provider-
\* config, set-API-key, set-active-model, the first two for one provider.
\* While that list runs, the primary model differs from what it was only
\* after the first two operations have ended, with the provider's entry
\* written and its credential stored; and once the pipeline is over after a
\* failed set-API-key, the provider's entry is written and the primary model,
\* the configured models and the credentials are what they were.
C17_OrderOfMutations ==
  Len(ops) = 3 =>
    LET doc == DocOf(file)
        old == DocOf(startFile)
        p == ops[1].provider
    IN /\ ops[1].name = "setProviderConfig"
       /\ ops[2].name = "setApiKey"
       /\ ops[3].name = "setModel"
       /\ ops[2].provider = p
       /\ getPrimaryModel(doc) # getPrimaryModel(old) =>
            /\ \E i, j \in 1..Len(log) :
                 i < j /\ log[i] = Event("end", 1) /\ log[j] = Event("end", 2)
            /\ failed = NoFailure
            /\ ProviderEntry(doc, p) = StringifyEntry(ops[1].config)
            /\ Has(creds, p) /\ creds[p] = ops[2].apiKey
            /\ getPrimaryModel(doc) = ops[3].modelKey
       /\ (PipelineOver /\ failed.name = "setApiKey") =>
            /\ failed.idx = 2
            /\ ProviderEntry(doc, p) = StringifyEntry(ops[1].config)
            /\ getPrimaryModel(doc) = getPrimaryModel(old)
            /\ getConfiguredModels(doc) = getConfiguredModels(old)
            /\ creds = startCreds

\* C17 witness: the credential command failed for openai/gpt-5.1 on a missing
\* file: the file written holds the openai entry and no primary model.
C17_Witness ==
  /\ Len(ops) = 3
  /\ lastStep.at = "pipeline"
  /\ failed = [name |-> "setApiKey", idx |-> 2]
  /\ ~startFile.exists
  /\ Has(ProviderEntry(DocOf(file), "openai"), "baseUrl")
  /\ getPrimaryModel(DocOf(file)) = NullKey
  /\ creds = NoCreds

\* C17 second case: all three operations succeeded and the primary model is
\* the selected one.
C17_WitnessDone ==
  /\ Len(ops) = 3
  /\ lastStep.at = "pipeline"
  /\ failed = NoFailure
  /\ getPrimaryModel(DocOf(startFile)) = NullKey
  /\ getPrimaryModel(DocOf(file)) = <<"openai", "/", "gpt-5.1">>
  /\ Has(creds, "openai")

\* C20: the add-provider flow reaches the API-key prompt and the pipeline
\* only with a selected key that begins with a provider of the vendor's
\* providers (of the full enumeration when the vendor names none) followed by
\* "/"; the provider of the set-provider-config and set-API-key operations is
\* then exactly what stands before the first "/" of the key handed to
\* set-active-model; a selected key of no such provider makes the flow return
\* with nothing done.
C20_ProviderIsKeyPrefix ==
  /\ lastStep = [at |-> "selectModel", input |-> "unsupported"] => ReturnedUntouched
  /\ lastStep = [at |-> "selectModel", input |-> "value"] => pc = "apiKey"
  /\ (chosen = "add" /\ pc \in {"apiKey", "pipeline", "applying", "report"}) =>
       /\ \E i \in 1..Len(allowedOf(curVendor)) : allowedOf(curVendor)[i] = curProvider
       /\ PrefixAt(selectedModel.key, <<curProvider>>) # {}
       /\ pc # "apiKey" =>
            /\ Len(ops) = 3
            /\ ops[1].provider = curProvider
            /\ ops[3].modelKey = selectedModel.key
  /\ Len(ops) = 3 =>
       LET k == ops[3].modelKey
       IN /\ indexOf(k, Slash) >= 1
          /\ ProviderStr(ops[1].provider) = SubSeq(k, 1, indexOf(k, Slash))
          /\ ops[2].provider = ops[1].provider
          /\ (PipelineOver /\ failed = NoFailure) =>
               /\ Has(Sub(Sub(DocOf(file), "models"), "providers"), ops[1].provider)
               /\ Has(creds, ops[1].provider)
               /\ getPrimaryModel(DocOf(file)) = k

\* C20 witness: xai/grok-4, a key of no supported provider, is selected for
\* the vendor "other" on an existing document; nothing was done.
C20_Witness ==
  /\ lastStep = [at |-> "selectModel", input |-> "unsupported"]
  /\ pc = "menu"
  /\ file.exists /\ file = startFile

\* C20 second case: openai/gpt-5.1 was selected and the pipeline has written
\* the openai entry, the openai credential and the primary model.
C20_WitnessWritten ==
  /\ Len(ops) = 3
  /\ lastStep.at = "pipeline" /\ failed = NoFailure
  /\ ops[3].modelKey = <<"openai", "/", "gpt-5.1">>
  /\ Has(ProviderEntry(DocOf(file), "openai"), "baseUrl")
  /\ Has(creds, "openai")
  /\ getPrimaryModel(DocOf(file)) = <<"openai", "/", "gpt-5.1">>

\* ------------------------------------------------------------------ writer claims
\* agents.defaults.models of a document, or the empty object when absent
ModelSettings(doc) == Sub(Sub(Sub(doc, "agents"), "defaults"), "models")

\* C18: a successful setModel(k) leaves agents.defaults.model.primary = k with
\* k a key of agents.defaults.models: the keys of that map are the former
\* ones and k, every former entry (one for k included) keeps its value, and
\* an entry created for k is empty.  The other writers keep "primary is a key
\* of the map" once it holds, so it holds after any sequence of calls that
\* follows a successful setModel.
C18_PrimaryIsConfigured ==
  (lastCall.op # "none" /\ ~lastCall.threw) =>
    LET b == DocOf(before)
        a == DocOf(file)
        k == lastCall.modelKey
    IN IF lastCall.op = "setModel"
       THEN /\ getPrimaryModel(a) = k
            /\ getPrimaryModel(a) \in getConfiguredModels(a)
            /\ getConfiguredModels(a) = getConfiguredModels(b) \cup {k}
            /\ \A m \in getConfiguredModels(b) : ModelSettings(a)[m] = ModelSettings(b)[m]
            /\ k \notin getConfiguredModels(b) => ModelSettings(a)[k] = EmptyObj
       ELSE getPrimaryModel(b) \in getConfiguredModels(b) =>
              getPrimaryModel(a) \in getConfiguredModels(a)

\* C18 witness: setModel(K2) on a document whose primary model is K1 with the
\* settings alias = fast: K2 is primary with an empty entry, K1's entry is
\* kept.
C18_Witness ==
  /\ lastCall.op = "setModel" /\ ~lastCall.threw
  /\ lastCall.modelKey = K2
  /\ getPrimaryModel(DocOf(before)) = K1
  /\ getPrimaryModel(DocOf(file)) = K2
  /\ ModelSettings(DocOf(file))[K2] = EmptyObj
  /\ ModelSettings(DocOf(file))[K1] = [alias |-> "fast"]

\* C18 second case: setModel(K1) where K1 has settings: they are not reset.
C18_WitnessKept ==
  /\ lastCall.op = "setModel" /\ ~lastCall.threw
  /\ lastCall.modelKey = K1
  /\ K1 \in getConfiguredModels(DocOf(before))
  /\ ModelSettings(DocOf(file))[K1] = [alias |-> "fast"]

\* C19: a call of setProviderConfig, setModel or triggerGatewayRestart fails
\* exactly when the file exists and its content cannot be parsed, and then
\* the file is left as it was; on a missing file the call succeeds and
\* writes what it writes into the empty document.
C19_UnparseableLeftAlone ==
  lastCall.op # "none" =>
    /\ lastCall.threw <=> (before.exists /\ ~before.wellFormed)
    /\ lastCall.threw => file = before
    /\ ~before.exists =>
         /\ file.exists /\ file.wellFormed
         /\ lastCall.op = "setProviderConfig" =>
              file.json = [models |-> [mode |-> "merge",
                                       providers |-> [p \in {lastCall.provider} |->
                                                        StringifyEntry(lastCall.config)]]]
         /\ lastCall.op = "setModel" =>
              file.json = [agents |-> [defaults |->
                             [model |-> [primary |-> lastCall.modelKey],
                              models |-> [m \in {lastCall.modelKey} |-> EmptyObj]]]]
         /\ lastCall.op = "triggerGatewayRestart" =>
              file.json = [meta |-> [lastTouchedAt |-> lastCall.now]]

\* C19 witness: setModel on a file whose content cannot be parsed has thrown
\* and the file is the same.
C19_Witness ==
  /\ lastCall.op = "setModel" /\ lastCall.threw
  /\ before = BadFile
  /\ file = BadFile

\* C19 second case: triggerGatewayRestart on a missing file has written a
\* document holding the timestamp alone.
C19_WitnessMissing ==
  /\ lastCall.op = "triggerGatewayRestart" /\ ~lastCall.threw
  /\ ~before.exists
  /\ file.exists
  /\ file.json = [meta |-> [lastTouchedAt |-> lastCall.now]]

====
